---- MODULE Spec2Model ----
(***************************************************************************)
(* Model of has_it_been_fkd.py: a batch of e-mail addresses is checked     *)
(* against a breach service by coroutines gated by an asyncio.Semaphore;   *)
(* hits are merged into the module-level dict breach_cache; execute()      *)
(* joins the batch with asyncio.gather and prints the sorted cache.        *)
(*                                                                         *)
(* Scheduling is cooperative: a coroutine runs from one await that really  *)
(* suspends to the next, so each action below is one such stretch.         *)
(***************************************************************************)
EXTENDS Integers, Sequences, FiniteSets, TLC

(* ---- bounds of the model ---------------------------------------------- *)
MaxLines == 2        \* longest address list that is explored
MaxWorkers == 2      \* largest thread_count that is explored
MaxBreaches == 2     \* longest "Breaches" array in a response
RecursionLimit == 1  \* check_breaches frames a check may nest before the
                     \* interpreter raises RecursionError (about 1000 in CPython)

(* ---- values ----------------------------------------------------------- *)
\* an address is kept as the pieces str.replace works on
AddressA == <<"a", "@", "x.com">>
AddressB == <<"b", "@", "x.com">>
Addresses == {AddressA, AddressB}

Names == {"Adobe", "LinkedIn"}
NoName == "<no Name key>"
Entries == Names \cup {NoName}

Statuses == {200, 404, 433}

\* no response has ended the check
NoResponse == [status |-> 0, marker |-> FALSE]

\* exceptions a task can end with
NoException == "none"
ClientError == "ClientError"
JSONDecodeError == "JSONDecodeError"
KeyError == "KeyError"
CancelledError == "CancelledError"
RecursionError == "RecursionError"

\* a task that returned no value (Python's None) has the empty result
None == <<>>

SeqsUpTo(S, n) == UNION { [1..k -> S] : k \in 0..n }

\* "Breaches" arrays explored (an entry is its "Name" or lacks one): an entry
\* without "Name" comes last, as nothing after it is ever looked at
BreachLists ==
    { l \in SeqsUpTo(Entries, MaxBreaches) : \A k \in 1..(Len(l) - 1) : l[k] # NoName }

\* parsed body of a response: not JSON at all, JSON without a "Breaches"
\* key, or JSON with a "Breaches" array
Datas == [kind : {"Malformed", "NoBreaches"}, breaches : {<<>>}]
         \cup [kind : {"Json"}, breaches : BreachLists]

NotJson == [kind |-> "Malformed", breaches |-> <<>>]

\* bodies the service is taken to send: whether the text holds "Cloudflare to
\* restrict access", and what json() makes of it; a block page is HTML, not JSON
Bodies == [marker : {FALSE}, data : Datas] \cup [marker : {TRUE}, data : {NotJson}]

\* bodies explored for a status: every body for 200; for 404, whose JSON the
\* code never parses, a block page, a non-JSON page and one breach list; for
\* 433, which is a block page whatever its body, one body without the marker
BodiesOf(status) ==
    IF status = 200 THEN Bodies
    ELSE IF status = 433 THEN { b \in Bodies : ~b.marker /\ b.data.kind = "Malformed" }
    ELSE { b \in Bodies : b.data.kind = "Malformed" \/ b.data.breaches = <<"Adobe">> }

VARIABLES
    lines,          \* execute: the addresses load_files returned
    max_workers,    \* configuration["thread_count"]
    sem_value,      \* gather_tasks: free permits of the semaphore
    gather_exc,     \* gather: the outer future already holds an exception
    pc,             \* execute: "gather", "done" (summary printed), "raised",
                    \*          "exited" (asyncio.run cancelled what was left)
    breach_cache,   \* the module-level dict, as <<name, count>> pairs in insertion order
    sorted_cache,   \* execute: the dict printed at the end, empty before
    state,          \* per check: Pending, InFlight, NotFound, Breached, Fatal, Cancelled
    lookup,         \* per check: the response whose handling ended the check
                    \* (status, whether the text held the block marker)
    url,            \* per check: base_url of the request that is out
    depth,          \* per check: check_breaches frames nested below the first,
                    \* one per block page received
    outer,          \* per check: status of the block page held by the outermost
                    \* check_breaches frame while it awaits its retry, 0 when none
    result,         \* per check: value returned by the task
    exception,      \* per check: exception the task ended with
    acquired,       \* per check: times sem_task entered the semaphore
    released,       \* per check: times sem_task left the semaphore
    counted,        \* per check: names it passed to count_breach, in order
    data_breaches   \* per check: the "Breaches" array line 81 read, empty before

vars == << lines, max_workers, sem_value, gather_exc, pc, breach_cache,
           sorted_cache, state, lookup, url, depth, outer, result, exception, acquired,
           released, counted, data_breaches >>

\* a dispatcher that creates no more checks than there are permits
ChecksUpToWorkers == 1..(IF Len(lines) < max_workers THEN Len(lines) ELSE max_workers)

\* lines 126, 30: one check_breaches coroutine and one sem_task per element of lines
Checks == 1..Len(lines)

Terminal == {"NotFound", "Breached", "Fatal", "Cancelled"}

(* ---- pure helpers ----------------------------------------------------- *)
RECURSIVE Replace(_, _, _)
\* str.replace on the pieces of an address
Replace(s, old, new) ==
    IF s = <<>> THEN <<>>
    ELSE << (IF Head(s) = old THEN new ELSE Head(s)) >> \o Replace(Tail(s), old, new)

\* line 55: the URL the lookup goes to
BaseUrl(email_address) ==
    <<"https://haveibeenpwned.com/unifiedsearch/">> \o Replace(email_address, "@", "%40")

\* a classification that looks at the status alone
IsBlockedStatusOnly(status, marker) == status = 433

\* line 72: the response is a block page
IsBlocked(status, marker) == marker \/ status = 433

\* line 74: the interpreter has no room for another check_breaches frame
TooDeep(frames) == frames >= RecursionLimit

\* a 404 test that never matches, so that 404 falls through to the JSON path
IsNotFoundNever(status) == FALSE

\* a 404 test that also takes 200 for "not found"
IsNotFoundOr200(status) == status \in {200, 404}

\* line 76
IsNotFound(status) == status = 404

RECURSIVE IndexOf(_, _)
\* position of name among the keys of cache, 0 when absent
IndexOf(cache, name) ==
    IF cache = <<>> THEN 0
    ELSE IF cache[Len(cache)][1] = name THEN Len(cache)
    ELSE IndexOf(SubSeq(cache, 1, Len(cache) - 1), name)

\* an aggregator that starts a fresh dict when it meets a new name
count_breach_fresh(cache, name) ==
    LET k == IndexOf(cache, name)
    IN  IF k > 0 THEN [cache EXCEPT ![k] = <<name, cache[k][2] + 1>>]
        ELSE << <<name, 1>> >>

\* an aggregator that stores 1 whether or not the name is already a key
count_breach_overwrite(cache, name) ==
    LET k == IndexOf(cache, name)
    IN  IF k > 0 THEN [cache EXCEPT ![k] = <<name, 1>>]
        ELSE Append(cache, <<name, 1>>)

\* lines 40-43: breach_cache[name] += 1, or = 1 on KeyError
count_breach(cache, name) ==
    LET k == IndexOf(cache, name)
    IN  IF k > 0 THEN [cache EXCEPT ![k] = <<name, cache[k][2] + 1>>]
        ELSE Append(cache, <<name, 1>>)

RECURSIVE CountAllDistinct(_, _)
\* a loop that counts a name once however often the response lists it
CountAllDistinct(cache, names) ==
    IF names = <<>> THEN cache
    ELSE IF \E k \in 2..Len(names) : names[k] = Head(names)
         THEN CountAllDistinct(cache, Tail(names))
         ELSE CountAllDistinct(count_breach(cache, Head(names)), Tail(names))

RECURSIVE CountAll(_, _)
\* line 83 run over a list of names
CountAll(cache, names) ==
    IF names = <<>> THEN cache
    ELSE CountAll(count_breach(cache, Head(names)), Tail(names))

RECURSIVE NamedPrefix(_)
\* the entries line 83 gets through before database["Name"] raises KeyError
NamedPrefix(entries) ==
    IF entries = <<>> \/ Head(entries) = NoName THEN <<>>
    ELSE <<Head(entries)>> \o NamedPrefix(Tail(entries))

\* lines 80-83: the exception they raise on this body, if any
Raised(data) ==
    IF data.kind = "Malformed" THEN JSONDecodeError
    ELSE IF data.kind = "NoBreaches" THEN KeyError
    ELSE IF NamedPrefix(data.breaches) # data.breaches THEN KeyError
    ELSE NoException

\* a loop that stops after the first entry
CountedNamesFirst(data) ==
    IF data.kind # "Json" \/ NamedPrefix(data.breaches) = <<>> THEN <<>>
    ELSE <<Head(data.breaches)>>

\* the names lines 80-83 pass to count_breach before returning or raising
CountedNames(data) ==
    IF data.kind # "Json" THEN <<>> ELSE NamedPrefix(data.breaches)

RECURSIVE InsertDescBefore(_, _)
\* an insertion that puts item before the elements whose count equals its own
InsertDescBefore(sorted, item) ==
    IF sorted = <<>> THEN <<item>>
    ELSE IF Head(sorted)[2] > item[2]
         THEN <<Head(sorted)>> \o InsertDescBefore(Tail(sorted), item)
         ELSE <<item>> \o sorted

RECURSIVE InsertDesc(_, _)
\* place item after every element whose count is >= its own
InsertDesc(sorted, item) ==
    IF sorted = <<>> THEN <<item>>
    ELSE IF Head(sorted)[2] >= item[2]
         THEN <<Head(sorted)>> \o InsertDesc(Tail(sorted), item)
         ELSE <<item>> \o sorted

RECURSIVE SortedDesc(_)
\* line 129: sorted(breach_cache.items(), key=count, reverse=True), which is stable
SortedDesc(cache) ==
    IF cache = <<>> THEN <<>>
    ELSE InsertDesc(SortedDesc(SubSeq(cache, 1, Len(cache) - 1)), cache[Len(cache)])

RECURSIVE Distinct(_)
\* the names of a list, each once, in order of first occurrence
Distinct(names) ==
    IF names = <<>> THEN <<>>
    ELSE LET rest == Distinct(SubSeq(names, 1, Len(names) - 1))
             last == names[Len(names)]
         IN  IF \E k \in 1..Len(rest) : rest[k] = last THEN rest ELSE Append(rest, last)

\* a return value that lists every database once
ReturnValueDistinct(entries) == <<TRUE, Distinct(entries), Len(Distinct(entries))>>

\* line 89: True, the "Name" of every entry in the order of the array, and
\* the length of the array (an entry is kept as its "Name")
ReturnValue(entries) == <<TRUE, entries, Len(entries)>>

\* a 404 branch that returns a "not breached" tuple
NotFoundTuple == <<FALSE, <<>>, 0>>

\* line 78: the bare return of the 404 branch
NotFoundResult == None

\* a semaphore that holds its last permit back
SemLockedBelowTwo(value) == value <= 1

\* a semaphore that never makes anyone wait
SemLockedNever(value) == FALSE

\* Semaphore.locked(): no permit is free
SemLocked(value) == value <= 0

\* a release that gives no permit back
SemReleaseLeak(value) == value

\* Semaphore.release(), run when sem_task leaves "async with semaphore"
SemRelease(value) == value + 1

\* a join that returns as soon as one task has finished
GatherAnyDone(st) == \E i \in DOMAIN st : st[i] \in {"NotFound", "Breached"}

\* a join that only waits for the tasks that have started
GatherStartedDone(st) == \A i \in DOMAIN st : st[i] # "InFlight"

\* gather's result is ready: every task finished, none with an exception
GatherDone(st) == \A i \in DOMAIN st : st[i] \in {"NotFound", "Breached"}

\* the address lists explored: one address repeated, or repeated and followed
\* by a different one, as the code never looks at what an address is
Inputs ==
    { l \in SeqsUpTo(Addresses, MaxLines) :
        /\ l # <<>> => l[1] = AddressA
        /\ \A k \in 1..(Len(l) - 1) : l[k] = AddressA }

(* ---- initial state ---------------------------------------------------- *)
Init ==
    /\ lines \in Inputs
    /\ max_workers \in 0..MaxWorkers
    /\ sem_value = max_workers
    /\ gather_exc = FALSE
    /\ pc = "gather"
    /\ breach_cache = <<>>
    /\ sorted_cache = <<>>
    /\ state = [i \in Checks |-> "Pending"]
    /\ lookup = [i \in Checks |-> NoResponse]
    /\ url = [i \in Checks |-> <<>>]
    /\ depth = [i \in Checks |-> 0]
    /\ outer = [i \in Checks |-> 0]
    /\ result = [i \in Checks |-> None]
    /\ exception = [i \in Checks |-> NoException]
    /\ acquired = [i \in Checks |-> 0]
    /\ released = [i \in Checks |-> 0]
    /\ counted = [i \in Checks |-> <<>>]
    /\ data_breaches = [i \in Checks |-> <<>>]

\* the event loop still runs the checks
Running == pc \in {"gather", "raised"}

(* ---- sem_task / check_breaches ---------------------------------------- *)
\* lines 27-28, 55-70: sem_task gets a permit, starts the check, the GET goes out
SemAcquire(i) ==
    /\ Running
    /\ state[i] = "Pending"
    /\ ~SemLocked(sem_value)
    /\ sem_value' = sem_value - 1
    /\ acquired' = [acquired EXCEPT ![i] = @ + 1]
    /\ state' = [state EXCEPT ![i] = "InFlight"]
    /\ url' = [url EXCEPT ![i] = BaseUrl(lines[i])]
    /\ UNCHANGED << lines, max_workers, gather_exc, pc, breach_cache, sorted_cache,
                    lookup, depth, outer, result, exception, released, counted,
                    data_breaches >>

\* a retry that leaves the semaphore and queues for a permit again
BlockedRequeued(i, status, body) ==
    /\ IsBlocked(status, body.marker)
    /\ state' = [state EXCEPT ![i] = "Pending"]
    /\ sem_value' = SemRelease(sem_value)
    /\ released' = [released EXCEPT ![i] = @ + 1]
    /\ UNCHANGED << gather_exc, breach_cache, lookup, url, depth, outer, result,
                    exception, counted, data_breaches >>

\* lines 72-74: block page, the same lookup is started again inside the permit
Blocked(i, status, body) ==
    /\ IsBlocked(status, body.marker)
    /\ ~TooDeep(depth[i])
    /\ depth' = [depth EXCEPT ![i] = @ + 1]
    /\ lookup' = [lookup EXCEPT ![i] = NoResponse]
    /\ url' = [url EXCEPT ![i] = BaseUrl(lines[i])]
    /\ outer' = [outer EXCEPT ![i] = IF @ = 0 THEN status ELSE @]
    /\ UNCHANGED << sem_value, gather_exc, breach_cache, state, result, exception,
                    released, counted, data_breaches >>

\* line 74 at the recursion limit: the nested call raises RecursionError,
\* which leaves every frame and sem_task, through the semaphore, for gather
RetryTooDeep(i, status, body) ==
    /\ IsBlocked(status, body.marker)
    /\ TooDeep(depth[i])
    /\ lookup' = [lookup EXCEPT ![i] = [status |-> status, marker |-> body.marker]]
    /\ exception' = [exception EXCEPT ![i] = RecursionError]
    /\ state' = [state EXCEPT ![i] = "Fatal"]
    /\ sem_value' = SemRelease(sem_value)
    /\ released' = [released EXCEPT ![i] = @ + 1]
    /\ gather_exc' = TRUE
    /\ depth' = [depth EXCEPT ![i] = 0]
    /\ outer' = [outer EXCEPT ![i] = 0]
    /\ UNCHANGED << breach_cache, url, result, counted, data_breaches >>

\* lines 76-78: bare return, sem_task leaves the semaphore
NotFound(i, status, body) ==
    /\ ~IsBlocked(status, body.marker)
    /\ IsNotFound(status)
    /\ lookup' = [lookup EXCEPT ![i] = [status |-> status, marker |-> body.marker]]
    /\ state' = [state EXCEPT ![i] = "NotFound"]
    /\ result' = [result EXCEPT ![i] = NotFoundResult]
    /\ sem_value' = SemRelease(sem_value)
    /\ released' = [released EXCEPT ![i] = @ + 1]
    /\ depth' = [depth EXCEPT ![i] = 0]
    /\ outer' = [outer EXCEPT ![i] = 0]
    /\ UNCHANGED << gather_exc, breach_cache, url, exception, counted, data_breaches >>

\* lines 80-89: every entry counted, the tuple returned, sem_task leaves the semaphore
Breached(i, status, body) ==
    /\ ~IsBlocked(status, body.marker)
    /\ ~IsNotFound(status)
    /\ Raised(body.data) = NoException
    /\ lookup' = [lookup EXCEPT ![i] = [status |-> status, marker |-> body.marker]]
    /\ breach_cache' = CountAll(breach_cache, CountedNames(body.data))
    /\ counted' = [counted EXCEPT ![i] = @ \o CountedNames(body.data)]
    /\ data_breaches' = [data_breaches EXCEPT ![i] = body.data.breaches]
    /\ result' = [result EXCEPT ![i] = ReturnValue(body.data.breaches)]
    /\ state' = [state EXCEPT ![i] = "Breached"]
    /\ sem_value' = SemRelease(sem_value)
    /\ released' = [released EXCEPT ![i] = @ + 1]
    /\ depth' = [depth EXCEPT ![i] = 0]
    /\ outer' = [outer EXCEPT ![i] = 0]
    /\ UNCHANGED << gather_exc, url, exception >>

\* lines 80-83 raise after counting the entries before the faulty one; the
\* exception leaves sem_task through the semaphore and reaches gather
Malformed(i, status, body) ==
    /\ ~IsBlocked(status, body.marker)
    /\ ~IsNotFound(status)
    /\ Raised(body.data) # NoException
    /\ lookup' = [lookup EXCEPT ![i] = [status |-> status, marker |-> body.marker]]
    /\ breach_cache' = CountAll(breach_cache, CountedNames(body.data))
    /\ counted' = [counted EXCEPT ![i] = @ \o CountedNames(body.data)]
    /\ data_breaches' = [data_breaches EXCEPT ![i] = body.data.breaches]
    /\ exception' = [exception EXCEPT ![i] = Raised(body.data)]
    /\ state' = [state EXCEPT ![i] = "Fatal"]
    /\ sem_value' = SemRelease(sem_value)
    /\ released' = [released EXCEPT ![i] = @ + 1]
    /\ gather_exc' = TRUE
    /\ depth' = [depth EXCEPT ![i] = 0]
    /\ outer' = [outer EXCEPT ![i] = 0]
    /\ UNCHANGED << url, result >>

\* lines 70-89: the response (status and body) arrives and is classified
Response(i) ==
    /\ Running
    /\ state[i] = "InFlight"
    /\ \E status \in Statuses : \E body \in BodiesOf(status) :
          \/ Blocked(i, status, body)
          \/ RetryTooDeep(i, status, body)
          \/ NotFound(i, status, body)
          \/ Breached(i, status, body)
          \/ Malformed(i, status, body)
    /\ UNCHANGED << lines, max_workers, pc, sorted_cache, acquired >>

\* lines 70, 72: session.get or lookup.text() fails with a network error
NetworkFailure(i) ==
    /\ Running
    /\ state[i] = "InFlight"
    /\ state' = [state EXCEPT ![i] = "Fatal"]
    /\ exception' = [exception EXCEPT ![i] = ClientError]
    /\ sem_value' = SemRelease(sem_value)
    /\ released' = [released EXCEPT ![i] = @ + 1]
    /\ gather_exc' = TRUE
    /\ lookup' = [lookup EXCEPT ![i] = NoResponse]
    /\ depth' = [depth EXCEPT ![i] = 0]
    /\ outer' = [outer EXCEPT ![i] = 0]
    /\ UNCHANGED << lines, max_workers, pc, breach_cache, sorted_cache, url,
                    result, acquired, counted, data_breaches >>

(* ---- execute / asyncio.run -------------------------------------------- *)
\* lines 126-131: gather returns, the cache is sorted and printed
GatherReturn ==
    /\ pc = "gather"
    /\ ~gather_exc
    /\ GatherDone(state)
    /\ sorted_cache' = SortedDesc(breach_cache)
    /\ pc' = "done"
    /\ UNCHANGED << lines, max_workers, sem_value, gather_exc, breach_cache, state,
                    lookup, url, depth, outer, result, exception, acquired, released,
                    counted, data_breaches >>

\* an execute that catches the error and prints what was counted so far
GatherRaiseCaught ==
    /\ pc = "gather"
    /\ gather_exc
    /\ sorted_cache' = SortedDesc(breach_cache)
    /\ pc' = "done"
    /\ UNCHANGED << lines, max_workers, sem_value, gather_exc, breach_cache, state,
                    lookup, url, depth, outer, result, exception, acquired, released,
                    counted, data_breaches >>

\* line 126: gather hands the first exception to execute, which has no handler
GatherRaise ==
    /\ pc = "gather"
    /\ gather_exc
    /\ pc' = "raised"
    /\ UNCHANGED << lines, max_workers, sem_value, gather_exc, breach_cache,
                    sorted_cache, state, lookup, url, depth, outer, result, exception,
                    acquired, released, counted, data_breaches >>

RECURSIVE ReleaseAll(_, _)
\* one release per cancelled sem_task that holds a permit
ReleaseAll(value, n) == IF n = 0 THEN value ELSE ReleaseAll(SemRelease(value), n - 1)

\* line 138: asyncio.run cancels the tasks that are left before it re-raises;
\* a cancelled sem_task that holds a permit gives it back
RunCancel ==
    /\ pc = "raised"
    /\ pc' = "exited"
    /\ state' = [i \in Checks |-> IF state[i] \in Terminal THEN state[i] ELSE "Cancelled"]
    /\ exception' = [i \in Checks |-> IF state[i] \in Terminal THEN exception[i]
                                      ELSE CancelledError]
    /\ released' = [i \in Checks |-> IF state[i] = "InFlight" THEN released[i] + 1
                                     ELSE released[i]]
    /\ sem_value' = ReleaseAll(sem_value, Cardinality({i \in Checks : state[i] = "InFlight"}))
    /\ lookup' = [i \in Checks |-> IF state[i] \in Terminal THEN lookup[i] ELSE NoResponse]
    /\ depth' = [i \in Checks |-> 0]
    /\ outer' = [i \in Checks |-> 0]
    /\ UNCHANGED << lines, max_workers, gather_exc, breach_cache, sorted_cache,
                    url, result, acquired, counted, data_breaches >>

Next ==
    \/ \E i \in Checks : SemAcquire(i)
    \/ \E i \in Checks : Response(i)
    \/ \E i \in Checks : NetworkFailure(i)
    \/ GatherReturn
    \/ GatherRaise
    \/ RunCancel

Spec == Init /\ [][Next]_vars

(* ---- the run under a fair event loop and an answering service ---------- *)
\* lines 70-89: a response that is no block page comes back and ends the check
Answered(i) == Response(i) /\ state'[i] # "InFlight"

\* the event loop runs a coroutine that is ready (a sem_task while a permit is
\* free, execute once gather is done or has failed, asyncio.run once execute
\* has raised), and a lookup that stays out is answered, after finitely many
\* block pages, by a response that is no block page
Fairness ==
    /\ WF_vars(\E i \in Checks : SemAcquire(i))
    /\ WF_vars(\E i \in Checks : Answered(i))
    /\ WF_vars(GatherReturn \/ GatherRaise \/ RunCancel)

LiveSpec == Init /\ [][Next]_vars /\ Fairness

TypeOK ==
    /\ pc \in {"gather", "done", "raised", "exited"}
    /\ sem_value \in 0..max_workers
    /\ \A i \in Checks : state[i] \in Terminal \cup {"Pending", "InFlight"}

(* ---- measures used by the properties ----------------------------------- *)
\* checks inside "async with semaphore"
Holders == { i \in Checks : acquired[i] > released[i] }

\* the states the per-address state machine calls terminal
Resolved == {"NotFound", "Breached", "Fatal"}

RECURSIVE SumCounts(_)
\* sum of the values of the cache
SumCounts(cache) ==
    IF cache = <<>> THEN 0 ELSE Head(cache)[2] + SumCounts(Tail(cache))

\* value the cache holds for name, 0 when it is no key
CountOf(cache, name) ==
    IF IndexOf(cache, name) = 0 THEN 0 ELSE cache[IndexOf(cache, name)][2]

RECURSIVE Occurrences(_, _)
\* how often name occurs in a list of names
Occurrences(names, name) ==
    IF names = <<>> THEN 0
    ELSE (IF Head(names) = name THEN 1 ELSE 0) + Occurrences(Tail(names), name)

RECURSIVE CallsUpTo(_)
\* count_breach calls completed by checks 1..n
CallsUpTo(n) == IF n = 0 THEN 0 ELSE Len(counted[n]) + CallsUpTo(n - 1)

\* the database list a task returned, empty when it returned None
Databases(i) == IF result[i] = None THEN <<>> ELSE result[i][2]

RECURSIVE ReportedUpTo(_, _)
\* (address, entry) pairs of checks 1..n whose entry is name
ReportedUpTo(n, name) ==
    IF n = 0 THEN 0 ELSE Occurrences(Databases(n), name) + ReportedUpTo(n - 1, name)

(* ---- C1 ---------------------------------------------------------------- *)
\* C1: with max_workers >= 1, the checks that hold a permit (in flight, a
\* blocked retry included) never number more than max_workers
C1_AtMostMaxWorkers ==
    max_workers >= 1 =>
        /\ Cardinality(Holders) <= max_workers
        /\ \A i \in Checks : state[i] = "InFlight" => i \in Holders

\* every permit is taken, one holder is inside a blocked retry, a check waits
C1_Witness ==
    /\ max_workers >= 1
    /\ Cardinality(Holders) = max_workers
    /\ \E i \in Holders : outer[i] # 0
    /\ \E i \in Checks : state[i] = "Pending"

(* ---- C2 ---------------------------------------------------------------- *)
\* C2: the values of breach_cache always add up to the number of
\* count_breach calls completed so far
C2_SumIsHits == SumCounts(breach_cache) = CallsUpTo(Len(lines))

\* two checks have counted, one name twice
C2_Witness ==
    /\ \E i, j \in Checks : i # j /\ counted[i] # <<>> /\ counted[j] # <<>>
    /\ \E k \in 1..Len(breach_cache) : breach_cache[k][2] >= 2

(* ---- C3 ---------------------------------------------------------------- *)
\* C3: a check that ends Breached on a response of N entries has made no
\* increment before (blocked retries count nothing), makes exactly N then, one
\* per entry in order, each name rising by 1 per entry that bears it, and makes
\* none afterwards
C3_Step(i) ==
    /\ (state[i] # "Breached" /\ state'[i] = "Breached") =>
           /\ counted[i] = <<>>
           /\ counted'[i] = result'[i][2]
           /\ Len(counted'[i]) = result'[i][3]
           /\ \A name \in Names :
                  CountOf(breach_cache', name)
                      = CountOf(breach_cache, name) + Occurrences(result'[i][2], name)
    /\ state[i] = "Breached" => counted'[i] = counted[i]

C3_NIncrements == [][\A i \in Checks : C3_Step(i)]_vars

\* a check ended Breached on a response that lists one name twice
C3_Witness ==
    \E i \in Checks :
        /\ state[i] = "Breached"
        /\ result[i][3] = 2
        /\ result[i][2][1] = result[i][2][2]
        /\ CountOf(breach_cache, result[i][2][1]) >= 2

(* ---- C4 ---------------------------------------------------------------- *)
\* C4: when the run completes, the count of every name equals the number of
\* (address, entry) pairs that reported it, whatever the interleaving
C4_NoLostIncrement ==
    pc = "done" =>
        /\ \A name \in Names :
               CountOf(breach_cache, name) = ReportedUpTo(Len(lines), name)
        /\ \A k \in 1..Len(breach_cache) : breach_cache[k][1] \in Names

\* two addresses, two workers, each reports "Adobe" once: {"Adobe": 2}
C4_Witness ==
    /\ pc = "done"
    /\ lines = <<AddressA, AddressB>>
    /\ max_workers = 2
    /\ \A i \in Checks : result[i] = <<TRUE, <<"Adobe">>, 1>>
    /\ breach_cache = << <<"Adobe", 2>> >>

(* ---- C5 ---------------------------------------------------------------- *)
\* C5 as stated: a check that was answered with status 404 makes no increment
\* (fails: a 404 that is a block page is retried, and the retry may count)
C5_Any404CountsNothing ==
    [][\A i \in Checks : outer[i] = 404 => counted'[i] = counted[i]]_vars

\* C5 amended: a check whose 404 response is not a block page ends NotFound and
\* has left the aggregator alone: the step that ends it changes neither keys
\* nor counts, and the check made no count_breach call in its whole life
C5_Step(i) ==
    /\ (lookup[i] = NoResponse /\ lookup'[i].status = 404 /\ ~lookup'[i].marker) =>
           /\ state'[i] = "NotFound"
           /\ breach_cache' = breach_cache
           /\ counted[i] = <<>>
           /\ counted' = counted
    /\ state[i] = "NotFound" => counted'[i] = <<>>

C5_NotFoundCountsNothing == [][\A i \in Checks : C5_Step(i)]_vars

\* a check ended NotFound while another one had put a name into the cache
C5_Witness ==
    /\ breach_cache # <<>>
    /\ \E i \in Checks :
           /\ state[i] = "NotFound"
           /\ lookup[i].status = 404
           /\ counted[i] = <<>>

(* ---- C6 ---------------------------------------------------------------- *)
\* C6 as stated: once a response that is no block page comes back to a check
\* that was blocked and retried, the check ends NotFound or Breached (fails:
\* that response may be malformed, and the check then ends Fatal)
C6_RetryEndsResolvedOnly ==
    [][\A i \in Checks :
          (outer[i] # 0 /\ lookup'[i] # NoResponse) => state'[i] \in {"NotFound", "Breached"}]_vars

\* C6 amended: while a check is in flight it stays on the same URL with its
\* permit, and a block page sends the same request again; what ends the
\* check is a response that is no block page (NotFound on 404, Breached on
\* well-formed JSON, Fatal on a malformed body), a network failure (Fatal),
\* the block page that comes when the retries have nested to the recursion
\* limit (Fatal, RecursionError), or the cancellation that follows another
\* check's error; it never ends without one of these
C6_Step(i) ==
    /\ state[i] = "InFlight" =>
           /\ url[i] = BaseUrl(lines[i])
           /\ lookup[i] = NoResponse
    /\ (state[i] = "InFlight" /\ state'[i] = "InFlight") =>
           /\ url'[i] = url[i]
           /\ acquired'[i] = acquired[i]
           /\ released'[i] = released[i]
    /\ (state[i] = "InFlight" /\ outer'[i] # outer[i] /\ outer'[i] # 0) =>
           state'[i] = "InFlight"
    /\ (state[i] = "InFlight" /\ depth'[i] # depth[i] /\ depth'[i] # 0) =>
           /\ state'[i] = "InFlight"
           /\ depth'[i] = depth[i] + 1
           /\ depth'[i] <= RecursionLimit
    /\ (state[i] = "InFlight" /\ state'[i] # "InFlight") =>
           \/ /\ state'[i] \in {"NotFound", "Breached"}
              /\ lookup'[i] # NoResponse
              /\ ~lookup'[i].marker
              /\ lookup'[i].status # 433
              /\ exception'[i] = NoException
           \/ /\ state'[i] = "Fatal"
              /\ exception'[i] \in {JSONDecodeError, KeyError}
              /\ lookup'[i] # NoResponse
              /\ ~lookup'[i].marker
              /\ lookup'[i].status # 433
           \/ /\ state'[i] = "Fatal"
              /\ exception'[i] = ClientError
              /\ lookup'[i] = NoResponse
           \/ /\ state'[i] = "Fatal"
              /\ exception'[i] = RecursionError
              /\ lookup'[i].marker \/ lookup'[i].status = 433
              /\ depth[i] = RecursionLimit
           \/ /\ state'[i] = "Cancelled"
              /\ exception'[i] = CancelledError
              /\ pc = "raised"

C6_BlockedIsRetried == [][\A i \in Checks : C6_Step(i)]_vars

\* a check was blocked and its lookup is out again
C6_Witness ==
    \E i \in Checks :
        /\ state[i] = "InFlight"
        /\ outer[i] = 433
        /\ url[i] = <<"https://haveibeenpwned.com/unifiedsearch/", "a", "%40", "x.com">>
        /\ i \in Holders

(* ---- C7 ---------------------------------------------------------------- *)
\* C7: execute reads breach_cache for the summary only when every scheduled
\* check is in a terminal state, and never before
C7_ReadAfterAll ==
    [][(pc' = "done" \/ sorted_cache' # sorted_cache) =>
           /\ \A i \in Checks : state[i] \in Resolved
           /\ pc = "gather"
           /\ sorted_cache' = SortedDesc(breach_cache)]_vars

\* the summary was built after two checks, one of them Breached
C7_Witness ==
    /\ pc = "done"
    /\ Len(lines) = 2
    /\ sorted_cache # <<>>
    /\ \E i \in Checks : state[i] = "NotFound"

(* ---- C8 ---------------------------------------------------------------- *)
\* C8 as stated: control has not left the gather wait, by return or by error,
\* while a check is Pending or InFlight (fails: gather hands on the first
\* error at once)
C8_JoinWaitsForAll ==
    pc # "gather" => \A i \in Checks : state[i] \notin {"Pending", "InFlight"}

\* C8 amended: control leaves the gather wait by return only when every check
\* has ended NotFound or Breached; it leaves by a propagated error only after
\* some check has ended Fatal, and then without waiting for the checks that
\* are still Pending or InFlight, which asyncio.run cancels
C8_JoinWaitsUnlessError ==
    /\ pc = "done" => \A i \in Checks : state[i] \in {"NotFound", "Breached"}
    /\ pc \in {"raised", "exited"} => \E i \in Checks : state[i] = "Fatal"
    /\ pc = "exited" => \A i \in Checks : state[i] \in Terminal
    /\ pc = "gather" => \A i \in Checks : state[i] # "Cancelled"

\* the error has left execute while one check waits and another is in flight
C8_Witness ==
    /\ pc = "raised"
    /\ \E i \in Checks : state[i] = "Fatal"
    /\ \E i \in Checks : state[i] \in {"Pending", "InFlight"}

(* ---- C9 ---------------------------------------------------------------- *)
\* C9: a check sends its first request only with a permit, takes a permit
\* once, keeps it through every blocked retry, gives it back once when it
\* ends (NotFound, Breached or Fatal); when every check has ended, all
\* max_workers permits are free
C9_PermitDiscipline ==
    /\ \A i \in Checks :
           /\ state[i] = "Pending" => acquired[i] = 0 /\ released[i] = 0 /\ url[i] = <<>>
           /\ state[i] = "InFlight" => acquired[i] = 1 /\ released[i] = 0
           /\ state[i] \in Resolved => acquired[i] = 1 /\ released[i] = 1
           /\ state[i] = "Cancelled" => acquired[i] <= 1 /\ released[i] = acquired[i]
    /\ sem_value = max_workers - Cardinality(Holders)
    /\ (\A i \in Checks : state[i] \in Terminal) => sem_value = max_workers

\* every check has ended, one after a wait for the only permit
C9_Witness ==
    /\ max_workers = 1
    /\ Len(lines) = 2
    /\ sem_value = 1
    /\ state[1] = "Fatal"
    /\ state[2] = "Breached"

(* ---- C10 --------------------------------------------------------------- *)
\* C10 as stated: no response of status 404 is answered by a retry,
\* whatever its body (fails: a 404 whose body holds the block marker is
\* classified as blocked first)
C10_No404Retried == \A i \in Checks : outer[i] # 404

\* C10 amended: every response of status 404 whose body does not hold the
\* block marker is classified NotFound: the check ends there, without a
\* retry, an exception or a result; a 404 whose body holds the marker is
\* classified as a block page and never ends a check NotFound
C10_Plain404IsNotFound ==
    \A i \in Checks :
        /\ (lookup[i].status = 404 /\ lookup[i].marker) =>
               /\ state[i] = "Fatal"
               /\ exception[i] = RecursionError
        /\ (lookup[i].status = 404 /\ ~lookup[i].marker) =>
               /\ state[i] = "NotFound"
               /\ exception[i] = NoException
               /\ result[i] = None
               /\ outer[i] = 0
        /\ state[i] = "NotFound" => lookup[i] = [status |-> 404, marker |-> FALSE]

\* a check ended NotFound on a 404
C10_Witness ==
    \E i \in Checks :
        /\ state[i] = "NotFound"
        /\ lookup[i] = [status |-> 404, marker |-> FALSE]

C12_TwoOutcomes ==
    /\ pc = "done" =>
           /\ \A i \in Checks : state[i] \in {"NotFound", "Breached"}
           /\ \A name \in Names :
                  CountOf(sorted_cache, name) = ReportedUpTo(Len(lines), name)
           /\ \A k \in 1..Len(sorted_cache) : sorted_cache[k][1] \in Names
           /\ Len(sorted_cache) = Len(breach_cache)
    /\ (pc = "gather" /\ \A i \in Checks : state[i] \in {"NotFound", "Breached"}) =>
           /\ ENABLED GatherReturn
           /\ ~ENABLED GatherRaise
    /\ (\E i \in Checks : state[i] = "Fatal") =>
           /\ gather_exc
           /\ exception \in [Checks -> {NoException, ClientError, JSONDecodeError,
                                        KeyError, RecursionError, CancelledError}]
           /\ pc \in {"gather", "raised", "exited"}
           /\ sorted_cache = <<>>
           /\ pc = "gather" => (ENABLED GatherRaise /\ ~ENABLED GatherReturn)
    /\ pc \in {"raised", "exited"} =>
           /\ \E i \in Checks : state[i] = "Fatal"
           /\ sorted_cache = <<>>

\* the run was aborted by a check that had counted a name before it failed,
\* next to a check that ended Breached: hits are in the cache, none is printed
C12_Witness ==
    /\ pc = "exited"
    /\ sorted_cache = <<>>
    /\ \E i, j \in Checks :
           /\ state[i] = "Fatal"
           /\ exception[i] = KeyError
           /\ counted[i] # <<>>
           /\ state[j] = "Breached"
           /\ counted[j] # <<>>

(* ---- C13 --------------------------------------------------------------- *)
\* C13: the summary execute builds holds exactly the (name, count) pairs of
\* breach_cache, each once, in descending order of count; pairs of equal
\* count stand in the order in which their names entered breach_cache
C13_SummarySortedStable ==
    pc = "done" =>
        /\ Len(sorted_cache) = Len(breach_cache)
        /\ \A k \in 1..Len(breach_cache) :
               \E j \in 1..Len(sorted_cache) : sorted_cache[j] = breach_cache[k]
        /\ \A j, k \in 1..Len(sorted_cache) :
               j < k =>
                   /\ sorted_cache[j][1] # sorted_cache[k][1]
                   /\ sorted_cache[j][2] >= sorted_cache[k][2]
                   /\ sorted_cache[j][2] = sorted_cache[k][2] =>
                          IndexOf(breach_cache, sorted_cache[j][1])
                              < IndexOf(breach_cache, sorted_cache[k][1])

\* two names of equal count, "LinkedIn" inserted first: it is printed first
C13_Witness ==
    /\ pc = "done"
    /\ breach_cache = << <<"LinkedIn", 2>>, <<"Adobe", 2>> >>
    /\ sorted_cache = << <<"LinkedIn", 2>>, <<"Adobe", 2>> >>

\* two names of different count, the smaller inserted first: it is printed last
C13_Reordered ==
    /\ pc = "done"
    /\ breach_cache = << <<"Adobe", 1>>, <<"LinkedIn", 2>> >>
    /\ sorted_cache = << <<"LinkedIn", 2>>, <<"Adobe", 1>> >>

(* ---- C14 --------------------------------------------------------------- *)
\* C14 as stated: the state of a check changes only along Pending -> InFlight,
\* InFlight -> NotFound, InFlight -> Breached and InFlight -> Fatal (fails:
\* when another check's error aborts the run, a check that is still Pending
\* or InFlight is cancelled)
C14_OnlyListedTransitions ==
    [][\A i \in Checks :
          state'[i] # state[i] =>
              << state[i], state'[i] >> \in
                  { <<"Pending", "InFlight">>, <<"InFlight", "NotFound">>,
                    <<"InFlight", "Breached">>, <<"InFlight", "Fatal">> }]_vars

\* C14 amended: the state of a check changes only along Pending -> InFlight,
\* InFlight -> NotFound, InFlight -> Breached, InFlight -> Fatal and, when the
\* run is aborted by another check's error, Pending -> Cancelled and
\* InFlight -> Cancelled. A check enters InFlight once; what keeps it there
\* is a block page, which sends the same request again and counts nothing.
\* NotFound, Breached, Fatal and Cancelled are absorbing: such a check sends
\* no request, takes no permit and makes no increment again
C14_Step(i) ==
    /\ state'[i] # state[i] =>
           \/ /\ state[i] = "Pending"
              /\ state'[i] = "InFlight"
              /\ acquired[i] = 0
              /\ outer'[i] = 0
           \/ /\ state[i] = "InFlight"
              /\ state'[i] \in {"NotFound", "Breached", "Fatal"}
           \/ /\ state[i] \in {"Pending", "InFlight"}
              /\ state'[i] = "Cancelled"
              /\ pc = "raised"
              /\ pc' = "exited"
              /\ \E j \in Checks : state[j] = "Fatal"
    /\ (state[i] = "InFlight" /\ state'[i] = "InFlight") =>
           /\ url'[i] = url[i]
           /\ counted'[i] = counted[i]
           /\ outer'[i] # outer[i] => (outer[i] = 0 /\ outer'[i] \in Statuses)
    /\ state[i] \in {"NotFound", "Breached", "Fatal", "Cancelled"} =>
           /\ state'[i] = state[i]
           /\ url'[i] = url[i]
           /\ acquired'[i] = acquired[i]
           /\ released'[i] = released[i]
           /\ counted'[i] = counted[i]
           /\ result'[i] = result[i]
           /\ exception'[i] = exception[i]
           /\ outer'[i] = 0

C14_Transitions == [][\A i \in Checks : C14_Step(i)]_vars

\* the run was aborted by a failed check while another one was in flight;
\* that one was cancelled and gave its permit back
C14_Witness ==
    /\ pc = "exited"
    /\ \E i, j \in Checks :
           /\ state[i] = "Fatal"
           /\ state[j] = "Cancelled"
           /\ acquired[j] = 1
           /\ released[j] = 1
           /\ url[j] # <<>>

(* ---- C15 --------------------------------------------------------------- *)
\* C15: a check that ended Breached returned breached = true, the names of
\* the entries of the "Breaches" array it read, in the order of the array and
\* with duplicates kept, and a count that equals the length of that list and
\* the number of count_breach calls the check made
C15_BreachedResult ==
    \A i \in Checks :
        state[i] = "Breached" =>
            /\ Len(result[i]) = 3
            /\ result[i][1] = TRUE
            /\ Len(result[i][2]) = Len(data_breaches[i])
            /\ \A k \in 1..Len(data_breaches[i]) :
                   /\ data_breaches[i][k] \in Names
                   /\ result[i][2][k] = data_breaches[i][k]
                   /\ counted[i][k] = data_breaches[i][k]
            /\ result[i][3] = Len(result[i][2])
            /\ result[i][3] = Len(counted[i])

\* a check read an array that names "LinkedIn" twice and returned both
C15_Witness ==
    \E i \in Checks :
        /\ state[i] = "Breached"
        /\ data_breaches[i] = <<"LinkedIn", "LinkedIn">>
        /\ result[i] = <<TRUE, <<"LinkedIn", "LinkedIn">>, 2>>
        /\ counted[i] = <<"LinkedIn", "LinkedIn">>

(* ---- C16 --------------------------------------------------------------- *)
\* C16: from the start of the join on there is one check per position of the
\* address list, however few permits there are; a check is started at most
\* once and asks for the address at its own position, so an address listed
\* twice is looked up twice; when the run completes, every position has had
\* its one lookup and every hit of every position is in the cache
C16_OneCheckPerOccurrence ==
    /\ DOMAIN state = DOMAIN lines
    /\ DOMAIN acquired = DOMAIN lines
    /\ \A k \in DOMAIN lines :
           /\ acquired[k] <= 1
           /\ state[k] = "Pending" => acquired[k] = 0
           /\ state[k] \in {"InFlight", "NotFound", "Breached", "Fatal"} =>
                  /\ acquired[k] = 1
                  /\ url[k] = BaseUrl(lines[k])
    /\ pc = "done" =>
           /\ \A k \in DOMAIN lines :
                  /\ acquired[k] = 1
                  /\ state[k] \in {"NotFound", "Breached"}
           /\ SumCounts(breach_cache) = CallsUpTo(Len(lines))

\* one address listed twice, one permit: two checks ran, "Adobe" counts 2
C16_Witness ==
    /\ pc = "done"
    /\ lines = <<AddressA, AddressA>>
    /\ max_workers = 1
    /\ acquired = <<1, 1>>
    /\ counted = << <<"Adobe">>, <<"Adobe">> >>
    /\ breach_cache = << <<"Adobe", 2>> >>

(* ---- C17 --------------------------------------------------------------- *)
\* C17: no step of a run resets breach_cache: every key stays where it is,
\* no count goes down, every key has a count >= 1, and the only change is
\* that of the count_breach calls one check made in that step: each count
\* rises by 1 per call made for its name, and a name that is new comes in
\* at the end with the number of its calls
C17_Step ==
    /\ breach_cache' = breach_cache => counted' = counted
    /\ breach_cache' # breach_cache =>
           /\ Len(breach_cache') >= Len(breach_cache)
           /\ \A k \in 1..Len(breach_cache) :
                  /\ breach_cache'[k][1] = breach_cache[k][1]
                  /\ breach_cache'[k][2] >= breach_cache[k][2]
           /\ \E i \in Checks :
                  /\ \A j \in Checks \ {i} : counted'[j] = counted[j]
                  /\ Len(counted'[i]) > Len(counted[i])
                  /\ LET calls == SubSeq(counted'[i], Len(counted[i]) + 1,
                                       Len(counted'[i]))
                     IN  /\ counted'[i] = counted[i] \o calls
                         /\ \A k \in 1..Len(breach_cache') :
                                /\ breach_cache'[k][2] >= 1
                                /\ breach_cache'[k][2]
                                       = (IF k <= Len(breach_cache)
                                          THEN breach_cache[k][2] ELSE 0)
                                         + Occurrences(calls, breach_cache'[k][1])
                                /\ \A j \in 1..(k - 1) :
                                       breach_cache'[j][1] # breach_cache'[k][1]
                         /\ \A c \in 1..Len(calls) :
                                \E k \in 1..Len(breach_cache') :
                                    breach_cache'[k][1] = calls[c]

C17_NeverReset == [][C17_Step]_vars

\* before the join returns the cache holds two names, the first counted
\* twice, the second come in after it; every check has counted
C17_Witness ==
    /\ pc = "gather"
    /\ \A i \in Checks : counted[i] # <<>>
    /\ Len(breach_cache) = 2
    /\ breach_cache[1][2] = 2
    /\ breach_cache[2][2] = 1

(* ---- C18 --------------------------------------------------------------- *)
\* C18: under a fair event loop and a service that answers every lookup with
\* a response that is no block page after finitely many block pages, a run
\* with max_workers >= 1 in which no check ever ends Fatal reaches the point
\* where every check has ended NotFound or Breached, every permit is free and
\* execute has built the summary
C18_RunCompletes ==
    (max_workers >= 1 /\ [](\A i \in Checks : state[i] # "Fatal")) =>
        <>(/\ pc = "done"
           /\ \A i \in Checks : state[i] \in {"NotFound", "Breached"}
           /\ sem_value = max_workers
           /\ Holders = {}
           /\ sorted_cache = SortedDesc(breach_cache))

\* two addresses and one permit: both checks have ended, the second after a
\* wait for the permit, and the summary holds the hit
C18_Witness ==
    /\ pc = "done"
    /\ max_workers = 1
    /\ sem_value = 1
    /\ state = <<"NotFound", "Breached">>
    /\ sorted_cache = << <<"LinkedIn", 1>> >>

(* ---- C19 --------------------------------------------------------------- *)
\* C19 as stated: a block page never ends a check, however many came before
\* it: the check is in flight afterwards and keeps its permit (fails: the
\* retry is a nested call, and the block page that comes with the nesting at
\* the recursion limit ends the check Fatal with RecursionError and frees
\* its permit)
C19_BlockPageNeverEndsCheck ==
    [][\A i \in Checks :
          (state[i] = "InFlight" /\ IsBlocked(lookup'[i].status, lookup'[i].marker)) =>
              /\ state'[i] = "InFlight"
              /\ released'[i] = released[i]
              /\ sem_value' = sem_value]_vars

\* what does hold: below the recursion limit a block page leaves the check in
\* flight with its permit, and while every permit is held no waiting check
\* is started
C19_RetryBelowLimit ==
    [][\A i \in Checks :
          /\ (state[i] = "InFlight" /\ depth'[i] = depth[i] + 1) =>
                 /\ state'[i] = "InFlight"
                 /\ released'[i] = released[i]
                 /\ sem_value' = sem_value
                 /\ pc' = pc
          /\ (state[i] = "Pending" /\ Cardinality(Holders) >= max_workers) =>
                 state'[i] # "InFlight"]_vars

\* every permit is held by a check whose retries are nested to the limit,
\* while another check waits
C19_Witness ==
    /\ max_workers >= 1
    /\ Cardinality(Holders) = max_workers
    /\ \A i \in Holders : depth[i] = RecursionLimit
    /\ \E i \in Checks : state[i] = "Pending"

\* a check was ended by a block page and the check that waited got its permit
C19_Overflow ==
    /\ max_workers = 1
    /\ \E i, j \in Checks :
           /\ state[i] = "Fatal"
           /\ exception[i] = RecursionError
           /\ lookup[i] = [status |-> 433, marker |-> FALSE]
           /\ state[j] = "InFlight"

====
